---- MODULE Spec2Model ----
(***************************************************************************)
(* Hey Listen: the audio worker (capture -> transcribe -> tag -> ingest),  *)
(* its retrying ingestion client, and the Pinecone manager (asynchronous   *)
(* store gateway with a 2-thread pool and a heuristic FIFO eviction).      *)
(*                                                                         *)
(* Texts are sequences of one-character strings, so that str.strip() is    *)
(* computed and not assumed.  Timestamps are counted in ticks of           *)
(* 1/TicksPerSecond second; NaN stands for a float that time.localtime()   *)
(* and int() reject.                                                       *)
(***************************************************************************)
EXTENDS Integers, Sequences, FiniteSets, TLC

VARIABLES
    api_key,        \* AudioWorker.api_key is set (SENSO_API_KEY)
    pinecone_env,   \* PINECONE_API_KEY and PINECONE_ENVIRONMENT are set
    sample_rate,    \* AudioWorker.sample_rate
    chunk_duration, \* AudioWorker.chunk_duration
    pc,             \* position of the main thread
    cur,            \* run(): locals of the iteration in progress
    last,           \* run(): how the last finished iteration ended
    ing,            \* the ingest_to_senso call in progress or last finished
    max_records,    \* PineconeManager.max_records
    store,          \* the remote index: a set of records [id, timestamp]
    tasks,          \* the futures handed to the executor, in submission order
    last_submit,    \* the last store_transcription_async call and its return
    last_poll       \* the last check_storage_status call and its return

vars == <<api_key, pinecone_env, sample_rate, chunk_duration, pc, cur, last, ing,
          max_records, store, tasks, last_submit, last_poll>>

workerVars == <<api_key, pinecone_env, sample_rate, chunk_duration,
                pc, cur, last, ing>>
storeVars  == <<max_records, store, tasks, last_submit, last_poll>>

----------------------------------------------------------------------------
(* Bounds of the model *)

MaxTick == 2
TicksPerSecond == 2
MaxCap == 2
MaxTasks == 3
RaceTasks == 6
GuardTasks == 2
PollTasks == 2
PoolTasks == 4
EvictTasks == 2
SeqTasks == 4
FairTasks == 3
IdTasks == 2
IdTicks == 24
MaxRate == 3
MaxDuration == 2

(* Program constants *)

STOP_AFTER_ATTEMPT == 3
MAX_WORKERS == 2
TOP_K == 10

NaN == -1

----------------------------------------------------------------------------
(* Values *)

None == "None"
ContentId == "content-id"

Whitespace == {" "}

Texts == { <<>>, <<" ">>, <<"h", "i">>, <<" ", "h", "i", " ">> }

Speakers == {"A", "B"}

ValidTimestamps == 0..MaxTick
Timestamps == ValidTimestamps \cup {NaN}

EndpointOutcomes == {"ok", "http_error", "network_error"}
Failures == {"http_error", "network_error"}

Scripts == [1..STOP_AFTER_ATTEMPT -> EndpointOutcomes]

----------------------------------------------------------------------------
(* str.strip() *)

RECURSIVE lstrip(_)
lstrip(s) ==
    IF s # <<>> /\ Head(s) \in Whitespace THEN lstrip(Tail(s)) ELSE s

RECURSIVE rstrip(_)
rstrip(s) ==
    IF s # <<>> /\ s[Len(s)] \in Whitespace
    THEN rstrip(SubSeq(s, 1, Len(s) - 1))
    ELSE s

strip(s) == rstrip(lstrip(s))

\* `not text` alone, the strip() test forgotten
IsBlankNoStrip(text) == text = <<>>

\* `not text or not text.strip()`
IsBlank(text) == text = <<>> \/ strip(text) = <<>>

----------------------------------------------------------------------------
(* AudioWorker.ingest_to_senso: the decorated body and tenacity's loop *)

\* time.strftime(..., time.localtime(timestamp)) raises on such a float
LocaltimeRaises(timestamp) == timestamp = NaN

Returned(value, posted) == [kind |-> "return", value |-> value, posted |-> posted]
Raised(posted) == [kind |-> "raise", value |-> None, posted |-> posted]

\* The body with its except clauses removed: every endpoint failure escapes.
IngestBodyPropagates(key, text, timestamp, outcome) ==
    IF ~key THEN Returned(None, FALSE)
    ELSE IF IsBlank(text) THEN Returned(None, FALSE)
    ELSE IF LocaltimeRaises(timestamp) THEN Raised(FALSE)
    ELSE IF outcome = "ok" THEN Returned(ContentId, TRUE)
    ELSE Raised(TRUE)

\* The body with `raise` in its HTTPError clause: an HTTP error status
\* escapes to tenacity.
IngestBodyReraisesHttp(key, text, timestamp, outcome) ==
    IF ~key THEN Returned(None, FALSE)
    ELSE IF IsBlank(text) THEN Returned(None, FALSE)
    ELSE IF LocaltimeRaises(timestamp) THEN Raised(FALSE)
    ELSE IF outcome = "ok" THEN Returned(ContentId, TRUE)
    ELSE IF outcome = "http_error" THEN Raised(TRUE)
    ELSE Returned(None, TRUE)

\* One execution of the function body; outcome is what the endpoint does
\* if the POST is made.
IngestBody(key, text, timestamp, outcome) ==
    IF ~key THEN Returned(None, FALSE)
    ELSE IF IsBlank(text) THEN Returned(None, FALSE)
    ELSE IF LocaltimeRaises(timestamp) THEN Raised(FALSE)
    ELSE IF outcome = "ok" THEN Returned(ContentId, TRUE)
    ELSE Returned(None, TRUE)

IdleIngest ==
    [status |-> "none", caller |-> "none", text |-> <<>>,
     timestamp |-> 0, script |-> [k \in 1..STOP_AFTER_ATTEMPT |-> "ok"],
     attempt_number |-> 0, served |-> 0, result |-> None]

StartIngest(caller, text, speaker, timestamp, script) ==
    [status |-> "running", caller |-> caller, text |-> text,
     timestamp |-> timestamp, script |-> script,
     attempt_number |-> 1, served |-> 0, result |-> None]

\* What the endpoint answers to the next request of this call.
NextOutcome(i) ==
    IF i.served < Len(i.script) THEN i.script[i.served + 1] ELSE "network_error"

\* tenacity: retry on any exception, stop_after_attempt(3), then RetryError.
AfterAttempt(i, r) ==
    LET served2 == i.served + (IF r.posted THEN 1 ELSE 0) IN
    IF r.kind = "return"
    THEN [i EXCEPT !.status = "returned", !.result = r.value, !.served = served2]
    ELSE IF i.attempt_number >= STOP_AFTER_ATTEMPT
    THEN [i EXCEPT !.status = "raised", !.served = served2]
    ELSE [i EXCEPT !.attempt_number = @ + 1, !.served = served2]

\* A direct call of ingest_to_senso by a client of the class.
IngestCall(text, speaker, timestamp, script) ==
    /\ pc = "idle"
    /\ pc' = "call"
    /\ ing' = StartIngest("direct", text, speaker, timestamp, script)
    /\ UNCHANGED <<api_key, pinecone_env, sample_rate, chunk_duration, cur, last>>
    /\ UNCHANGED storeVars

\* content_id logged by run(): `if content_id: ... else: ... LOCAL ONLY`
LogOutcomeNeverLocal(content_id) ==
    IF content_id # None THEN content_id ELSE "pending"

LogOutcome(content_id) ==
    IF content_id # None THEN content_id ELSE "LOCAL ONLY"

\* One attempt of the call in progress (body, then tenacity's decision),
\* and the return to the caller when the call ends.
IngestAttempt ==
    /\ pc \in {"call", "ingest"}
    /\ ing.status = "running"
    /\ LET r == IngestBody(api_key, ing.text, ing.timestamp, NextOutcome(ing))
           i2 == AfterAttempt(ing, r)
       IN /\ ing' = i2
          /\ pc' = IF i2.status = "running" THEN pc
                   ELSE IF pc = "call" THEN "idle"
                   ELSE IF i2.status = "returned" THEN "log"
                   ELSE "crashed"
          /\ cur' = IF pc = "ingest" /\ i2.status = "returned"
                    THEN [cur EXCEPT !.content_id = i2.result]
                    ELSE cur
    /\ UNCHANGED <<api_key, pinecone_env, sample_rate, chunk_duration, last>>
    /\ UNCHANGED storeVars

----------------------------------------------------------------------------
(* AudioWorker.run *)

\* capture_audio() returning None
NoAudio == [none |-> TRUE, shape |-> <<>>, data |-> <<>>]

\* sd.rec(frames, channels=1, dtype='float32'): an array of shape
\* (frames, channels)
rec(frames, channels) ==
    [none |-> FALSE, shape |-> <<frames, channels>>,
     data |-> [k \in 1..(frames * channels) |-> 0]]

\* ndarray.flatten(): the same samples in one dimension
flatten(a) == [none |-> FALSE, shape |-> <<Len(a.data)>>, data |-> a.data]

\* capture_audio without the flatten(): the (frames, 1) array as recorded
CaptureAudioNoFlatten(rate, duration, ok) ==
    IF ok THEN rec(duration * rate, 1) ELSE NoAudio

\* AudioWorker.capture_audio; ok: sd.rec and sd.wait did not raise
capture_audio(rate, duration, ok) ==
    IF ok THEN flatten(rec(duration * rate, 1)) ELSE NoAudio

\* transcribe_audio without the strip() of Whisper's text
TranscribeAudioNoStrip(raw, failed) == IF failed THEN <<>> ELSE raw

\* AudioWorker.transcribe_audio; failed: model.transcribe raised
transcribe_audio(raw, failed) == IF failed THEN <<>> ELSE strip(raw)

\* The locals of one iteration of run(); None where not yet assigned
NoIteration ==
    [audio |-> NoAudio, raw |-> <<>>, text |-> <<>>, speaker |-> None,
     timestamp |-> None, content_id |-> None]

NoLast == [kind |-> "none", raw |-> <<>>, failed |-> FALSE, text |-> <<>>,
           speaker |-> "A", timestamp |-> 0, outcome |-> "none"]

\* AudioWorker.diarize
diarize == "A"

RunStart ==
    /\ pc = "idle"
    /\ pc' = "capture"
    /\ cur' = NoIteration
    /\ ing' = IdleIngest
    /\ UNCHANGED <<api_key, pinecone_env, sample_rate, chunk_duration, last>>
    /\ UNCHANGED storeVars

\* The loop without `if audio is None: ... continue`
RunCaptureNoCheck(ok) ==
    /\ pc = "capture"
    /\ cur' = [NoIteration EXCEPT
                 !.audio = capture_audio(sample_rate, chunk_duration, ok)]
    /\ pc' = "transcribe"
    /\ last' = last
    /\ UNCHANGED <<api_key, pinecone_env, sample_rate, chunk_duration, ing>>
    /\ UNCHANGED storeVars

\* capture_audio() returns a buffer or None; on None: sleep(1), continue.
RunCapture(ok) ==
    /\ pc = "capture"
    /\ LET audio == capture_audio(sample_rate, chunk_duration, ok) IN
       /\ cur' = [NoIteration EXCEPT !.audio = audio]
       /\ IF audio.none
          THEN /\ pc' = "capture"
               /\ last' = [NoLast EXCEPT !.kind = "capture_failed"]
          ELSE /\ pc' = "transcribe"
               /\ last' = last
    /\ UNCHANGED <<api_key, pinecone_env, sample_rate, chunk_duration, ing>>
    /\ UNCHANGED storeVars

\* transcribe_audio (raw is Whisper's text, failed its exception), then
\* diarize, time.time() and the dispatch `ingest_to_senso(...) if api_key`.
RunTranscribe(raw, failed, now, script) ==
    /\ pc = "transcribe"
    /\ LET text == transcribe_audio(raw, failed) IN
       IF text = <<>>
       THEN /\ pc' = "capture"
            /\ last' = [NoLast EXCEPT !.kind = "silent", !.raw = raw,
                                      !.failed = failed]
            /\ UNCHANGED <<cur, ing>>
       ELSE /\ cur' = [cur EXCEPT !.raw = raw, !.text = text,
                                  !.speaker = diarize, !.timestamp = now,
                                  !.content_id = None]
            /\ last' = last
            /\ IF api_key
               THEN /\ pc' = "ingest"
                    /\ ing' = StartIngest("run", text, diarize, now, script)
               ELSE /\ pc' = "log"
                    /\ ing' = ing
    /\ UNCHANGED <<api_key, pinecone_env, sample_rate, chunk_duration>>
    /\ UNCHANGED storeVars

\* The iteration's log line, sleep(0.1), next iteration: the locals of the
\* iteration are dead from here on.
RunLog ==
    /\ pc = "log"
    /\ pc' = "capture"
    /\ last' = [kind |-> "logged", raw |-> cur.raw, failed |-> FALSE,
                text |-> cur.text, speaker |-> cur.speaker,
                timestamp |-> cur.timestamp,
                outcome |-> LogOutcome(cur.content_id)]
    /\ cur' = NoIteration
    /\ UNCHANGED <<api_key, pinecone_env, sample_rate, chunk_duration, ing>>
    /\ UNCHANGED storeVars

\* KeyboardInterrupt in the loop: the except clause logs and run() returns.
RunInterrupt ==
    /\ pc \in {"capture", "transcribe", "ingest", "log"}
    /\ pc' = "stopped"
    /\ UNCHANGED <<api_key, pinecone_env, sample_rate, chunk_duration, cur, last, ing>>
    /\ UNCHANGED storeVars

----------------------------------------------------------------------------
(* PineconeManager: the remote index *)

Unknown == 0 - 1
\* The empty id (`... or ""`): no candidate
NoId == <<>>

DigitChars == <<"0", "1", "2", "3", "4", "5", "6", "7", "8", "9">>

RECURSIVE Decimal(_)
\* str(n) of a natural number, as its characters
Decimal(n) ==
    IF n < Len(DigitChars) THEN <<DigitChars[n + 1]>>
    ELSE Decimal(n \div Len(DigitChars)) \o <<DigitChars[(n % Len(DigitChars)) + 1]>>

\* int(timestamp) of a timestamp >= 0: its whole seconds
IntPart(timestamp) == timestamp \div TicksPerSecond

\* The id formatted from the timestamp itself, without int()
VectorIdOfFloat(timestamp, speaker) ==
    <<"transcript", "_">> \o Decimal(IntPart(timestamp)) \o <<".">>
        \o Decimal(timestamp % TicksPerSecond) \o <<"_", speaker>>

\* vector_id = f"transcript_{int(timestamp)}_{speaker}"
VectorId(timestamp, speaker) ==
    <<"transcript", "_">> \o Decimal(IntPart(timestamp)) \o <<"_", speaker>>

Record(t) == [id |-> VectorId(t.timestamp, t.speaker), timestamp |-> t.timestamp]

\* describe_index_stats().total_vector_count
TotalVectorCount(s) == Cardinality(s)

\* index.upsert: the record of that id is replaced
Upserted(s, r) == {x \in s : x.id # r.id} \cup {r}

\* index.delete(ids=[id])
Deleted(s, id) == {x \in s : x.id # id}

Min(a, b) == IF a <= b THEN a ELSE b

\* index.query(top_k=10, filter timestamp >= 0): any top_k of the matching
\* records, all of them when there are no more than top_k
Samples(s) ==
    LET matching == {x \in s : x.timestamp >= 0} IN
    {m \in SUBSET matching : Cardinality(m) = Min(TOP_K, Cardinality(matching))}

\* The candidate chosen with max() in place of min()
Newest(matches) == {m \in matches : \A x \in matches : m.timestamp >= x.timestamp}

\* min(matches, key=timestamp): a record of smallest timestamp; which one
\* among equals depends on the order of the matches
Oldest(matches) == {m \in matches : \A x \in matches : m.timestamp <= x.timestamp}

\* _should_evict with > in place of >=
ShouldEvictStrict(total, limit) == total # 0 /\ total > limit

\* PineconeManager._should_evict on a successful stats query
should_evict(total, limit) == total # 0 /\ total >= limit

----------------------------------------------------------------------------
(* PineconeManager: the executor and its futures *)

\* A work item of the pool: the arguments, the future's state and result,
\* and the locals of _upsert_transcription_sync (total: the count read,
\* matches: the sample, cand: the id chosen, ops: the calls made so far,
\* failed: the eviction calls that raised, upserts: index.upsert calls).
NewTask(speaker, timestamp) ==
    [speaker |-> speaker, timestamp |-> timestamp, state |-> "queued",
     pc |-> "embed", total |-> Unknown, evict |-> FALSE, matches |-> {},
     cand |-> NoId, ops |-> <<>>, failed |-> {}, upserts |-> 0,
     raised |-> FALSE, result |-> "none"]

Handles == 1..Len(tasks)
Running == {i \in Handles : tasks[i].state = "running"}
Queued == {i \in Handles : tasks[i].state = "queued"}

\* store_transcription_async calling _upsert_transcription_sync itself, with
\* every store call succeeding, and returning a finished future
store_transcription_sync(text, speaker, timestamp) ==
    /\ IF IsBlank(text)
       THEN /\ tasks' = tasks
            /\ store' = store
            /\ last_submit' = [called |-> TRUE, text |-> text, ret |-> 0]
       ELSE /\ tasks' = Append(tasks,
                   [NewTask(speaker, timestamp) EXCEPT
                      !.state = "done", !.pc = "end", !.upserts = 1,
                      !.result = "true"])
            /\ store' = Upserted(store, Record(NewTask(speaker, timestamp)))
            /\ last_submit' = [called |-> TRUE, text |-> text,
                               ret |-> Len(tasks) + 1]
    /\ UNCHANGED <<max_records, last_poll>>
    /\ UNCHANGED workerVars

\* store_transcription_async: None (handle 0) for a blank text, else the
\* future of the submitted _upsert_transcription_sync call
store_transcription_async(text, speaker, timestamp) ==
    /\ IF IsBlank(text)
       THEN /\ tasks' = tasks
            /\ last_submit' = [called |-> TRUE, text |-> text, ret |-> 0]
       ELSE /\ tasks' = Append(tasks, NewTask(speaker, timestamp))
            /\ last_submit' = [called |-> TRUE, text |-> text,
                               ret |-> Len(tasks) + 1]
    /\ UNCHANGED <<max_records, store, last_poll>>
    /\ UNCHANGED workerVars

\* check_storage_status with the done() test inverted
StatusOfInvertedDone(h) ==
    IF h = 0 THEN "skipped"
    ELSE IF tasks[h].state = "done" THEN "pending"
    ELSE IF tasks[h].result = "exception" THEN "error"
    ELSE IF tasks[h].result = "true" THEN "success"
    ELSE "failed"

\* check_storage_status(future) as a function of the future's state
StatusOf(h) ==
    IF h = 0 THEN "skipped"
    ELSE IF tasks[h].state # "done" THEN "pending"
    ELSE IF tasks[h].result = "exception" THEN "error"
    ELSE IF tasks[h].result = "true" THEN "success"
    ELSE "failed"

check_storage_status(h) ==
    /\ last_poll' = [called |-> TRUE, handle |-> h, status |-> StatusOf(h)]
    /\ UNCHANGED <<max_records, store, tasks, last_submit>>
    /\ UNCHANGED workerVars

\* A pool that starts a thread for every work item
TaskStartNoLimit(i) ==
    /\ i \in Queued
    /\ \A j \in Queued : i <= j
    /\ tasks' = [tasks EXCEPT ![i].state = "running"]
    /\ UNCHANGED <<max_records, store, last_submit, last_poll>>
    /\ UNCHANGED workerVars

\* An idle pool thread takes the oldest queued work item.
TaskStart(i) ==
    /\ i \in Queued
    /\ \A j \in Queued : i <= j
    /\ Cardinality(Running) < MAX_WORKERS
    /\ tasks' = [tasks EXCEPT ![i].state = "running"]
    /\ UNCHANGED <<max_records, store, last_submit, last_poll>>
    /\ UNCHANGED workerVars

\* The end of the call: the future holds the result, the locals are gone.
\* raised: the embedding or the upsert call raised in the body.
Finished(t, result, raised) ==
    [t EXCEPT !.state = "done", !.pc = "end", !.result = result,
              !.raised = raised, !.total = Unknown, !.evict = FALSE,
              !.matches = {}, !.cand = NoId, !.ops = <<>>, !.failed = {}]

\* _upsert_transcription_sync without its try/except: the exception is set
\* on the future
Escaped(t) == Finished(t, "exception", TRUE)

\* `except Exception: ... return False` of _upsert_transcription_sync
Caught(t) == Finished(t, "false", TRUE)

\* generate_embedding(text), then the metadata and the id
TaskEmbed(i, ok) ==
    /\ i \in Running
    /\ tasks[i].pc = "embed"
    /\ tasks' = [tasks EXCEPT ![i] =
                   IF ok THEN [@ EXCEPT !.pc = "stats", !.ops = Append(@, "embed")]
                   ELSE Caught(@)]
    /\ UNCHANGED <<max_records, store, last_submit, last_poll>>
    /\ UNCHANGED workerVars

\* _should_evict() without its try/except: a stats failure reaches the
\* except clause of _upsert_transcription_sync
TaskStatsRaises(i, ok) ==
    /\ i \in Running
    /\ tasks[i].pc = "stats"
    /\ LET total == IF ok THEN TotalVectorCount(store) ELSE Unknown
           evict == ok /\ should_evict(total, max_records)
       IN tasks' = [tasks EXCEPT ![i] =
                      IF ~ok THEN Caught(@)
                      ELSE [@ EXCEPT !.total = total, !.evict = evict,
                                !.pc = IF evict THEN "query" ELSE "upsert",
                                !.ops = IF evict THEN @ \o <<"stats", "evict">>
                                        ELSE Append(@, "stats")]]
    /\ UNCHANGED <<max_records, store, last_submit, last_poll>>
    /\ UNCHANGED workerVars

\* _should_evict(): describe_index_stats, False when it raises
TaskStats(i, ok) ==
    /\ i \in Running
    /\ tasks[i].pc = "stats"
    /\ LET total == IF ok THEN TotalVectorCount(store) ELSE Unknown
           evict == ok /\ should_evict(total, max_records)
       IN tasks' = [tasks EXCEPT ![i] =
                      [@ EXCEPT !.total = total, !.evict = evict,
                                !.pc = IF evict THEN "query" ELSE "upsert",
                                !.ops = IF evict THEN @ \o <<"stats", "evict">>
                                        ELSE Append(@, "stats"),
                                !.failed = IF ok THEN @ ELSE @ \cup {"stats"}]]
    /\ UNCHANGED <<max_records, store, last_submit, last_poll>>
    /\ UNCHANGED workerVars

\* _evict_one_candidate(): the sample query and the choice of the oldest
TaskQuery(i, ok) ==
    /\ i \in Running
    /\ tasks[i].pc = "query"
    /\ \E matches \in Samples(store) :
          IF ok /\ matches # {}
          THEN \E oldest \in Oldest(matches) :
                  tasks' = [tasks EXCEPT ![i] =
                              [@ EXCEPT !.matches = matches,
                                        !.cand = oldest.id, !.pc = "delete",
                                        !.ops = Append(@, "query")]]
          ELSE tasks' = [tasks EXCEPT ![i] =
                           [@ EXCEPT !.pc = "upsert", !.ops = Append(@, "query"),
                                     !.failed = IF ok THEN @
                                                ELSE @ \cup {"query"}]]
    /\ UNCHANGED <<max_records, store, last_submit, last_poll>>
    /\ UNCHANGED workerVars

\* _evict_one_candidate(): index.delete(ids=[oldest_id]); a failure is logged
TaskDelete(i, ok) ==
    /\ i \in Running
    /\ tasks[i].pc = "delete"
    /\ store' = IF ok THEN Deleted(store, tasks[i].cand) ELSE store
    /\ tasks' = [tasks EXCEPT ![i] =
                   [@ EXCEPT !.pc = "upsert", !.ops = Append(@, "delete"),
                             !.matches = {},
                             !.failed = IF ok THEN @ ELSE @ \cup {"delete"}]]
    /\ UNCHANGED <<max_records, last_submit, last_poll>>
    /\ UNCHANGED workerVars

\* An upsert that is tried again when it raises
TaskUpsertRetries(i, ok) ==
    /\ i \in Running
    /\ tasks[i].pc = "upsert"
    /\ store' = IF ok THEN Upserted(store, Record(tasks[i])) ELSE store
    /\ tasks' = [tasks EXCEPT ![i] =
                   IF ok THEN Finished([@ EXCEPT !.upserts = @ + 1], "true", FALSE)
                   ELSE [@ EXCEPT !.upserts = Min(@ + 1, 2)]]
    /\ UNCHANGED <<max_records, last_submit, last_poll>>
    /\ UNCHANGED workerVars

\* index.upsert([(vector_id, vector, metadata)]) and the return
TaskUpsert(i, ok) ==
    /\ i \in Running
    /\ tasks[i].pc = "upsert"
    /\ store' = IF ok THEN Upserted(store, Record(tasks[i])) ELSE store
    /\ tasks' = [tasks EXCEPT ![i] =
                   IF ok THEN Finished([@ EXCEPT !.upserts = @ + 1], "true", FALSE)
                   ELSE Caught([@ EXCEPT !.upserts = @ + 1])]
    /\ UNCHANGED <<max_records, last_submit, last_poll>>
    /\ UNCHANGED workerVars

----------------------------------------------------------------------------
(* Specifications *)

InitWorker ==
    /\ pc = "idle"
    /\ cur = NoIteration
    /\ last = NoLast
    /\ ing = IdleIngest

InitStore ==
    /\ store = {}
    /\ tasks = <<>>
    /\ last_submit = [called |-> FALSE, text |-> <<>>, ret |-> 0]
    /\ last_poll = [called |-> FALSE, handle |-> 0, status |-> "skipped"]

\* The audio worker alone: no manager is constructed.
InitAudio ==
    /\ api_key \in BOOLEAN
    /\ pinecone_env \in BOOLEAN
    /\ sample_rate = MaxRate
    /\ chunk_duration = MaxDuration
    /\ max_records = MaxCap
    /\ InitWorker
    /\ InitStore

\* The manager alone: its constructor requires the Pinecone environment.
InitManager ==
    /\ api_key = FALSE
    /\ pinecone_env = TRUE
    /\ sample_rate = MaxRate
    /\ chunk_duration = MaxDuration
    /\ max_records \in 0..MaxCap
    /\ InitWorker
    /\ InitStore

NextWorker ==
    \/ \E text \in Texts, speaker \in Speakers, timestamp \in Timestamps,
          script \in Scripts : IngestCall(text, speaker, timestamp, script)
    \/ IngestAttempt
    \/ RunStart
    \/ \E ok \in BOOLEAN : RunCapture(ok)
    \/ \E raw \in Texts, failed \in BOOLEAN, now \in ValidTimestamps,
          script \in Scripts : RunTranscribe(raw, failed, now, script)
    \/ RunLog
    \/ RunInterrupt

\* run() alone, with no sink configured: every iteration is local.
NextCapture ==
    \/ RunStart
    \/ \E ok \in BOOLEAN : RunCapture(ok)
    \/ \E raw \in Texts, failed \in BOOLEAN, now \in ValidTimestamps :
          RunTranscribe(raw, failed, now, IdleIngest.script)
    \/ RunLog
    \/ RunInterrupt

\* The steps of the running task bodies
TaskSteps(outcomes) ==
    \/ \E i \in Handles, ok \in outcomes : TaskEmbed(i, ok)
    \/ \E i \in Handles, ok \in outcomes : TaskStats(i, ok)
    \/ \E i \in Handles, ok \in outcomes : TaskQuery(i, ok)
    \/ \E i \in Handles, ok \in outcomes : TaskDelete(i, ok)
    \/ \E i \in Handles, ok \in outcomes : TaskUpsert(i, ok)

NextTasks(outcomes) ==
    \/ \E i \in Handles : TaskStart(i)
    \/ TaskSteps(outcomes)

Submit(limit, texts, speakers) ==
    /\ Len(tasks) < limit
    /\ \E text \in texts, speaker \in speakers, timestamp \in ValidTimestamps :
          store_transcription_async(text, speaker, timestamp)

Poll == \E h \in 0..Len(tasks) : check_storage_status(h)

Spoken == {t \in Texts : t # <<>> /\ Head(t) \notin Whitespace}

NextStore ==
    \/ Submit(MaxTasks, Spoken, Speakers)
    \/ NextTasks(BOOLEAN)

NextPoll ==
    \/ Submit(PollTasks, Spoken, {diarize})
    \/ Poll
    \/ NextTasks(BOOLEAN)

\* One record per second from one speaker, every store call succeeding.
NextRace ==
    \/ /\ Len(tasks) < RaceTasks
       /\ store_transcription_async(<<"h", "i">>, diarize,
                                    Len(tasks) * TicksPerSecond)
    \/ NextTasks({TRUE})

\* One record per second from one speaker, polls, and store calls that may
\* fail: more work items than pool threads.
NextPool ==
    \/ /\ Len(tasks) < PoolTasks
       /\ store_transcription_async(<<"h", "i">>, diarize,
                                    Len(tasks) * TicksPerSecond)
    \/ Poll
    \/ NextTasks(BOOLEAN)

\* An index that already holds records when the manager is constructed
\* (the constructor reuses an existing index): one more than a sample can
\* hold, two of them with the same timestamp.
Prepopulated ==
    {Record([speaker |-> diarize, timestamp |-> sec * TicksPerSecond]) :
        sec \in 0..(TOP_K - 1)}
    \cup {Record([speaker |-> "B", timestamp |-> 0])}

\* Later records from one speaker, one per second; store calls may fail.
NextEvict ==
    \/ /\ Len(tasks) < EvictTasks
       /\ store_transcription_async(<<"h", "i">>, diarize,
                                    (TOP_K + Len(tasks)) * TicksPerSecond)
    \/ NextTasks(BOOLEAN)

\* Tasks run one at a time (a work item starts only when no task body is
\* running), every store call succeeding.
NextSeq ==
    \/ Submit(SeqTasks, {<<"h", "i">>}, Speakers)
    \/ Running = {} /\ \E i \in Handles : TaskStart(i)
    \/ TaskSteps({TRUE})

\* Submits of blank and spoken texts, one per second; store calls may fail.
NextFair ==
    \/ /\ Len(tasks) < FairTasks
       /\ \E text \in {<<" ">>, <<"h", "i">>} :
             store_transcription_async(text, diarize, Len(tasks) * TicksPerSecond)
    \/ NextTasks(BOOLEAN)

\* Records of both speakers at any tick, so that ids collide; store calls
\* may fail.
NextIds ==
    \/ Submit(IdTasks, {<<"h", "i">>}, Speakers)
    \/ NextTasks(BOOLEAN)

NextGuards ==
    \/ Submit(GuardTasks, Texts, {diarize})
    \/ NextTasks({TRUE})
    \/ /\ pc = "idle"
       /\ \E text \in Texts, timestamp \in {0, NaN} :
             IngestCall(text, diarize, timestamp, [k \in 1..STOP_AFTER_ATTEMPT |-> "ok"])
    \/ IngestAttempt

InitRace == InitManager /\ max_records >= 1

InitGuards ==
    /\ api_key \in BOOLEAN
    /\ pinecone_env = TRUE
    /\ sample_rate = MaxRate
    /\ chunk_duration = MaxDuration
    /\ max_records = 1
    /\ InitWorker
    /\ InitStore

\* A worker constructed with any sample rate and chunk duration, no sink.
InitCapture ==
    /\ api_key = FALSE
    /\ pinecone_env = FALSE
    /\ sample_rate \in 1..MaxRate
    /\ chunk_duration \in 1..MaxDuration
    /\ max_records = MaxCap
    /\ InitWorker
    /\ InitStore

SpecWorker == InitAudio /\ [][NextWorker]_vars

SpecCapture == InitCapture /\ [][NextCapture]_vars

SpecStore == InitManager /\ [][NextStore]_vars

SpecPoll == InitManager /\ [][NextPoll]_vars

SpecRace == InitRace /\ [][NextRace]_vars

SpecGuards == InitGuards /\ [][NextGuards]_vars

SpecPool == InitRace /\ [][NextPool]_vars

SpecSeq == InitRace /\ [][NextSeq]_vars

SpecIds == InitManager /\ [][NextIds]_vars

\* The pool threads are scheduled by the operating system and every store
\* call returns or raises: a task step that stays possible is taken.
SpecFair == InitRace /\ [][NextFair]_vars /\ WF_vars(NextTasks(BOOLEAN))

\* A manager whose index is at capacity from the start, holding either
\* more records than a sample or a single one.
InitEvict ==
    /\ api_key = FALSE
    /\ pinecone_env = TRUE
    /\ sample_rate = MaxRate
    /\ chunk_duration = MaxDuration
    /\ InitWorker
    /\ tasks = <<>>
    /\ last_submit = [called |-> FALSE, text |-> <<>>, ret |-> 0]
    /\ last_poll = [called |-> FALSE, handle |-> 0, status |-> "skipped"]
    /\ store \in {Prepopulated,
                  {Record([speaker |-> diarize, timestamp |-> 0])}}
    /\ max_records = TotalVectorCount(store)

SpecEvict == InitEvict /\ [][NextEvict]_vars

----------------------------------------------------------------------------
(* Claims C1..C10 *)

IngestFinished == ing.status \in {"returned", "raised"}

\* The call passes both guards and builds its payload.
ReachesEndpoint ==
    api_key /\ strip(ing.text) # <<>> /\ ing.timestamp \in ValidTimestamps

AllFail(n) == \A k \in 1..n : ing.script[k] \in Failures

\* C1 (as stated): a finished call whose endpoint fails the first two
\* requests and answers the third has made exactly 3 requests and returned
\* the id of the successful response.
RetryBudgetTwoFailuresThenSuccess ==
    (/\ IngestFinished
     /\ ReachesEndpoint
     /\ ing.script[1] \in Failures
     /\ ing.script[2] \in Failures
     /\ ing.script[3] = "ok")
    => (ing.served = 3 /\ ing.status = "returned" /\ ing.result = ContentId)

\* C2: when every request of a call fails, the call never makes more than
\* 3 requests, and once it has ended it has returned None to its caller
\* and has raised nothing.
IngestExhaustionReturnsNothing ==
    (ing.status # "none" /\ AllFail(Min(ing.served, STOP_AFTER_ATTEMPT)))
    => /\ ing.served <= STOP_AFTER_ATTEMPT
       /\ (IngestFinished /\ ing.served >= 1)
             => (ing.status = "returned" /\ ing.result = None)

\* C2 witness: a call whose endpoint fails every time has ended with None.
IngestExhaustionWitness ==
    /\ ing.status = "returned"
    /\ ReachesEndpoint
    /\ AllFail(STOP_AFTER_ATTEMPT)
    /\ ing.served >= 1
    /\ ing.result = None

Count(seq, op) == Cardinality({k \in 1..Len(seq) : seq[k] = op})

AboutToUpsert(i) == tasks[i].state = "running" /\ tasks[i].pc = "upsert"

\* C3 (as stated): a task that read a count >= max_records reaches its
\* upsert after exactly one call of _evict_one_candidate and at most one
\* delete; a task that read a smaller count reaches it without any delete.
FifoEvictionBeforeUpsert ==
    \A i \in Handles :
        (AboutToUpsert(i) /\ tasks[i].total # Unknown)
        => IF tasks[i].total >= max_records
           THEN /\ Count(tasks[i].ops, "evict") = 1
                /\ Count(tasks[i].ops, "delete") <= 1
           ELSE /\ Count(tasks[i].ops, "evict") = 0
                /\ Count(tasks[i].ops, "delete") = 0

\* C4 (as stated): with every store call succeeding, the index never holds
\* more than max_records plus the pool size records.
CapacityBoundUnderConcurrency ==
    TotalVectorCount(store) <= max_records + MAX_WORKERS

\* C5 (as stated): on a successful stats query, _should_evict is true
\* exactly when the reported count is >= max_records.
ShouldEvictIffAtCapacity ==
    \A i \in Handles :
        (tasks[i].state = "running" /\ tasks[i].total # Unknown)
        => (tasks[i].evict <=> tasks[i].total >= max_records)

\* C6: a submit of a text that is empty after trimming returns None and
\* leaves the executor, the futures and the index as they were; an ingest
\* of such a text, or without an API key, makes no request and returns None.
EmptyInputGuards ==
    /\ [](/\ (last_submit.called /\ strip(last_submit.text) = <<>>)
                => last_submit.ret = 0
          /\ (last_submit.called /\ strip(last_submit.text) # <<>>)
                => last_submit.ret = Len(tasks)
          /\ (ing.status # "none" /\ (strip(ing.text) = <<>> \/ ~api_key))
                => /\ ing.served = 0
                   /\ ing.status \in {"running", "returned"}
                   /\ ing.result = None
                   /\ ing.attempt_number = 1)
    /\ [][(last_submit' # last_submit /\ strip(last_submit'.text) = <<>>)
             => (tasks' = tasks /\ store' = store)]_vars

\* C6 witness: a whitespace-only text was submitted after a task had been
\* accepted, and a whitespace-only ingest has returned with the key set.
EmptyInputWitness ==
    /\ last_submit.called
    /\ last_submit.text = <<" ">>
    /\ last_submit.ret = 0
    /\ Len(tasks) >= 1
    /\ api_key
    /\ ing.status = "returned"
    /\ ing.text = <<" ">>

Terminal == {"success", "failed", "error"}

\* C7: a poll returns skipped for no handle, pending for a future that is
\* not done and a terminal status for one that is; a poll changes neither
\* the futures nor the index; a future's status goes from pending to a
\* terminal status and then stays, so a poll made after a terminal poll of
\* the same future returns the same status.
PollStatusStable ==
    /\ [](last_poll.called
            => /\ (last_poll.handle = 0 <=> last_poll.status = "skipped")
               /\ last_poll.status \in Terminal
                     => /\ tasks[last_poll.handle].state = "done"
                        /\ StatusOf(last_poll.handle) = last_poll.status)
    /\ [][last_poll' # last_poll
             => /\ tasks' = tasks /\ store' = store
                /\ LET h == last_poll'.handle IN
                   /\ (h # 0 /\ tasks[h].state \in {"queued", "running"})
                         => last_poll'.status = "pending"
                   /\ (h # 0 /\ tasks[h].state = "done")
                         => last_poll'.status \in Terminal]_vars
    /\ [][\A h \in Handles :
             /\ StatusOf(h) \in Terminal => StatusOf(h)' = StatusOf(h)
             /\ StatusOf(h) = "pending"
                   => StatusOf(h)' \in Terminal \cup {"pending"}]_vars

\* C7 witness: a done future was polled and a later step left the state of
\* a poll that returned failed.
PollStatusWitness ==
    /\ last_poll.called
    /\ last_poll.handle = 1
    /\ last_poll.status = "failed"
    /\ Len(tasks) = 2
    /\ tasks[2].state = "done"
    /\ tasks[2].result = "true"

PolledAfterRaise ==
    /\ last_poll.called
    /\ last_poll.handle # 0
    /\ last_poll.status # "pending"
    /\ tasks[last_poll.handle].raised

\* C8 (as stated): a poll of a finished task whose body raised returns
\* error.
RaisedTaskPollsError ==
    PolledAfterRaise => last_poll.status = "error"

\* C8 (amended): the exception of a task whose body raised is caught in
\* the task, the future holds False and no exception, and a poll of the
\* finished task returns failed.
RaisedTaskPollsFailed ==
    /\ \A h \in Handles :
          (tasks[h].state = "done" /\ tasks[h].raised)
          => tasks[h].result = "false"
    /\ PolledAfterRaise => last_poll.status = "failed"

\* C8 witness: a task whose body raised has been polled after its end.
RaisedTaskWitness ==
    PolledAfterRaise /\ last_poll.status = "failed"

\* C9 (as stated): with the Pinecone environment configured, an iteration
\* that logged a transcript has handed exactly that transcript to
\* store_transcription_async, once.
RunSubmitsToAsyncStore ==
    (pinecone_env /\ last.kind = "logged")
    => Cardinality({h \in Handles : /\ tasks[h].speaker = last.speaker
                                    /\ tasks[h].timestamp = last.timestamp}) = 1

NoSink == ~api_key /\ ~pinecone_env

\* C10: with no sink configured, run() never starts an ingest, no request
\* is made and no task or record exists, and every iteration that got a
\* transcript has logged it with LOCAL ONLY.
LocalOnlyMode ==
    NoSink
    => /\ pc # "ingest"
       /\ ing.served = 0
       /\ tasks = <<>> /\ store = {}
       /\ cur.content_id = None
       /\ last.kind = "logged" => last.outcome = "LOCAL ONLY"
       /\ last.kind \in {"none", "capture_failed", "silent", "logged"}

\* C10 witness: an iteration with a transcript was logged without a sink.
LocalOnlyWitness ==
    /\ NoSink
    /\ last.kind = "logged"
    /\ last.text = <<"h", "i">>
    /\ last.outcome = "LOCAL ONLY"
    /\ pc = "capture"

----------------------------------------------------------------------------
(* Claims C11..C20 *)

InLoop == pc \in {"capture", "transcribe", "ingest", "log"}

\* C11: run() never ends with an exception; a capture failure, a blank
\* transcript and the end of an ingest, failed or not, each lead back
\* to the next capture; the loop is left only by the interrupt.
LoopSurvival ==
    /\ [](pc # "crashed")
    /\ [][InLoop /\ ~InLoop' => pc' = "stopped"]_vars
    /\ [][pc = "ingest" /\ pc' # "ingest" => pc' \in {"log", "stopped"}]_vars
    /\ [][pc = "log" /\ pc' # "log" => pc' \in {"capture", "stopped"}]_vars
    /\ [](InLoop => ENABLED (NextWorker /\ InLoop'))

\* C11 witness: an iteration whose sink failed on every request was logged
\* and the loop is at its next capture.
LoopSurvivalWitness ==
    /\ pc = "capture"
    /\ last.kind = "logged"
    /\ last.outcome = "LOCAL ONLY"
    /\ ing.caller = "run" /\ ing.status = "returned"
    /\ ing.served = 1 /\ ing.script[1] = "http_error"

\* C14: every buffer capture_audio returns has one dimension and
\* sample_rate * chunk_duration samples.
CaptureBufferShape ==
    ~cur.audio.none
    => /\ Len(cur.audio.shape) = 1
       /\ cur.audio.shape[1] = sample_rate * chunk_duration
       /\ Len(cur.audio.data) = sample_rate * chunk_duration

\* C14 witness: a buffer was captured at a rate and a duration above 1.
CaptureBufferWitness ==
    /\ ~cur.audio.none
    /\ sample_rate = MaxRate /\ chunk_duration = MaxDuration
    /\ sample_rate > 1 /\ chunk_duration > 1
    /\ pc = "transcribe"

\* C15: a capture that fails leaves the loop at the capture, with no
\* transcript, tag, timestamp, ingest call or store call; the transcriber,
\* the tagger and the sink only ever run on a captured buffer; after a
\* failure the capture can fail again.
CaptureFailureSkipsIteration ==
    /\ [][(pc = "capture" /\ pc' # "stopped" /\ cur'.audio.none)
          => /\ pc' = "capture"
             /\ last'.kind = "capture_failed"
             /\ cur' = NoIteration
             /\ ing' = ing /\ tasks' = tasks /\ store' = store]_vars
    /\ [](pc \in {"transcribe", "ingest", "log"} => ~cur.audio.none)
    /\ []((pc = "capture" /\ last.kind = "capture_failed")
          => ENABLED RunCapture(FALSE))

\* C15 witness: a capture failed after an iteration that had been logged.
CaptureFailureWitness ==
    /\ pc = "capture"
    /\ last.kind = "capture_failed"
    /\ cur.audio.none
    /\ ing.caller = "run" /\ ing.status = "returned"

\* C16: a transcription that fails or is blank after trimming ends the
\* iteration at the next capture with no tag, no timestamp, no ingest call
\* and no store call; an iteration that goes on has a non-blank text.
SilentIteration ==
    /\ [][(pc = "transcribe" /\ pc' = "capture")
          => /\ last'.kind = "silent"
             /\ last'.failed \/ strip(last'.raw) = <<>>
             /\ cur' = cur
             /\ cur.speaker = None /\ cur.timestamp = None
             /\ ing' = ing /\ tasks' = tasks /\ store' = store]_vars
    /\ [][(pc = "transcribe" /\ pc' \in {"ingest", "log"})
          => /\ strip(cur'.raw) # <<>>
             /\ cur'.text = strip(cur'.raw)
             /\ cur'.speaker = diarize]_vars

\* C16 witness: a whitespace-only transcription ended an iteration that
\* followed an ingested one, whose call record is untouched.
SilentIterationWitness ==
    /\ pc = "capture"
    /\ last.kind = "silent" /\ ~last.failed /\ last.raw = <<" ">>
    /\ ~cur.audio.none /\ cur.speaker = None
    /\ ing.caller = "run" /\ ing.status = "returned"

\* C12: at most MAX_WORKERS tasks are running at any moment; a task starts
\* only into a free worker and only when no earlier submitted task is still
\* queued, so the tasks start in submission order; whenever a task waits
\* and a worker is free, a start is possible.
PoolConcurrency ==
    /\ [](Cardinality(Running) <= MAX_WORKERS)
    /\ [](\A i, j \in Handles :
            (i < j /\ tasks[j].state # "queued") => tasks[i].state # "queued")
    /\ [][\A i \in Handles :
            (tasks[i].state = "queued" /\ tasks'[i].state # "queued")
            => /\ tasks'[i].state = "running"
               /\ Cardinality(Running) < MAX_WORKERS
               /\ \A j \in Queued : i <= j]_vars
    /\ []((Queued # {} /\ Cardinality(Running) < MAX_WORKERS)
          => ENABLED (\E i \in Handles : TaskStart(i)))

\* C12 witness: the second task is done while the first still runs, the
\* third has taken the freed worker and the fourth waits.
PoolConcurrencyWitness ==
    /\ Len(tasks) >= 4
    /\ tasks[1].state = "running"
    /\ tasks[2].state = "done"
    /\ tasks[3].state = "running"
    /\ tasks[4].state = "queued"

\* C13: a submit of a non-blank text only appends a queued work item and
\* returns its handle: no store call is made in the step, no other task
\* changes, and a poll of the new handle right after it says pending;
\* the submit is possible in every state of the pool.
NonBlockingSubmit ==
    /\ [][Len(tasks') > Len(tasks)
          => /\ Len(tasks') = Len(tasks) + 1
             /\ last_submit'.ret = Len(tasks')
             /\ tasks'[Len(tasks')].state = "queued"
             /\ tasks'[Len(tasks')].ops = <<>>
             /\ tasks'[Len(tasks')].upserts = 0
             /\ StatusOf(Len(tasks))' = "pending"
             /\ store' = store
             /\ \A h \in Handles : tasks'[h] = tasks[h]]_vars
    /\ [](ENABLED store_transcription_async(<<"h", "i">>, diarize, 0))

\* C13 witness: with both workers busy and an earlier task queued, one more
\* submit returned a handle, and a poll of it said pending.
NonBlockingSubmitWitness ==
    /\ Cardinality(Running) = MAX_WORKERS
    /\ Cardinality(Queued) >= 2
    /\ last_submit.ret = Len(tasks)
    /\ last_poll.called /\ last_poll.handle = Len(tasks)
    /\ last_poll.status = "pending"

EvictionPcs == {"stats", "query", "delete"}

\* C17: a failure of the stats call, of the sample query or of the delete
\* never ends the task: the task goes on to its upsert; after a failed
\* stats call nothing is evicted, after a failed or empty query nothing is
\* deleted, a failed delete leaves the index as it was; the upsert is made
\* once, and the task reports success exactly when the upsert did not raise.
FailOpenCapacity ==
    /\ [](\A i \in Running :
            /\ tasks[i].failed # {} => tasks[i].pc = "upsert"
            /\ "stats" \in tasks[i].failed
               => /\ ~tasks[i].evict
                  /\ Count(tasks[i].ops, "evict") = 0
                  /\ Count(tasks[i].ops, "query") = 0
            /\ (tasks[i].pc = "upsert" /\ tasks[i].cand = NoId)
               => Count(tasks[i].ops, "delete") = 0)
    /\ [][\A i \in Handles :
            (tasks[i].pc \in EvictionPcs /\ tasks'[i] # tasks[i])
            => /\ tasks'[i].state = "running"
               /\ tasks'[i].pc \in {"query", "delete", "upsert"}
               /\ ~tasks'[i].raised
               /\ tasks'[i].failed # tasks[i].failed => store' = store
               /\ tasks[i].pc # "delete" => store' = store]_vars
    /\ [][\A i \in Handles :
            (tasks[i].pc = "upsert" /\ tasks'[i] # tasks[i])
            => /\ tasks'[i].state = "done"
               /\ tasks'[i].upserts = 1
               /\ IF tasks'[i].raised
                  THEN tasks'[i].result = "false" /\ store' = store
                  ELSE /\ tasks'[i].result = "true"
                       /\ Record(tasks[i]) \in store']_vars

\* C17 witness: a task whose delete failed is at its upsert, the index
\* still at capacity, after another task has ended with success.
FailOpenWitness ==
    \E i, j \in Handles :
        /\ AboutToUpsert(i)
        /\ tasks[i].failed = {"delete"}
        /\ TotalVectorCount(store) >= max_records
        /\ max_records >= 1
        /\ tasks[j].state = "done" /\ tasks[j].result = "true"

Ids(records) == {x.id : x \in records}

\* C18: a task that goes on to its delete holds a non-empty sample of at
\* most TOP_K records and the id of a record of that sample whose timestamp
\* is the smallest of the sample; its delete removes at most the record of
\* that id, and exactly that one when the call succeeds and the record is
\* still stored; records are removed by no other step, and a task whose
\* sample was empty goes to its upsert with nothing chosen.
EvictionCandidate ==
    /\ [](\A i \in Running :
            tasks[i].pc = "delete"
            => /\ tasks[i].matches # {}
               /\ Cardinality(tasks[i].matches) <= TOP_K
               /\ \E m \in tasks[i].matches :
                     /\ m.id = tasks[i].cand
                     /\ \A x \in tasks[i].matches : m.timestamp <= x.timestamp)
    /\ [][\A i \in Handles :
            (tasks[i].pc = "delete" /\ tasks'[i] # tasks[i])
            => /\ Ids(store) \ Ids(store') \subseteq {tasks[i].cand}
               /\ Ids(store) \ Ids(store') \subseteq Ids(tasks[i].matches)
               /\ ("delete" \notin tasks'[i].failed
                   /\ tasks[i].cand \in Ids(store))
                  => Ids(store) \ Ids(store') = {tasks[i].cand}]_vars
    /\ [][Ids(store) \ Ids(store') # {}
          => \E i \in Handles : tasks[i].pc = "delete" /\ tasks'[i] # tasks[i]]_vars
    /\ [][\A i \in Handles :
            (tasks[i].pc = "query" /\ tasks'[i].pc = "upsert")
            => tasks'[i].cand = NoId /\ store' = store]_vars

\* C18 witness: a task is at its delete with a full sample that misses the
\* oldest record of the index.
EvictionCandidateWitness ==
    \E i \in Running :
        /\ tasks[i].pc = "delete"
        /\ Cardinality(tasks[i].matches) = TOP_K
        /\ \E x \in store \ tasks[i].matches :
              \A m \in tasks[i].matches : x.timestamp < m.timestamp

\* An empty sample: the query of a task that had read a count >= 1 found
\* nothing, the only record having been deleted by the other worker.
EmptySampleReached ==
    \E i \in Running :
        /\ tasks[i].pc = "upsert" /\ tasks[i].evict
        /\ tasks[i].failed = {} /\ tasks[i].cand = NoId

Done == {h \in Handles : tasks[h].state = "done"}

\* C19: with tasks running one at a time, every store call succeeding and
\* max_records >= 1, the index never holds more than max_records records,
\* in particular after every task's end.
SequentialCapacity ==
    max_records >= 1 => TotalVectorCount(store) <= max_records

\* C19 witness: more records of distinct ids than max_records have been
\* stored by finished tasks, no task is running, and the index is full.
SequentialCapacityWitness ==
    /\ Running = {} /\ Queued = {}
    /\ Cardinality({VectorId(tasks[h].timestamp, tasks[h].speaker) : h \in Done})
          > max_records
    /\ \A h \in Done : tasks[h].result = "true"
    /\ TotalVectorCount(store) = max_records

RECURSIVE UpsertCalls(_)
\* index.upsert calls made by the first n tasks
UpsertCalls(n) == IF n = 0 THEN 0 ELSE tasks[n].upserts + UpsertCalls(n - 1)

\* C20: a submit adds one task exactly when its text is not blank; a task
\* calls index.upsert at most once; a finished task has called it once
\* unless its embedding raised, and reports success exactly when nothing
\* raised in its body; the calls never outnumber the tasks; under fair
\* scheduling every task submitted ends, and again and again all tasks
\* have ended, with one upsert per task if no body raised.
NoLossNoDuplication ==
    /\ [][last_submit' # last_submit \/ Len(tasks') # Len(tasks)
          => /\ last_submit'.called
             /\ IF IsBlank(last_submit'.text)
                THEN tasks' = tasks /\ last_submit'.ret = 0
                ELSE /\ Len(tasks') = Len(tasks) + 1
                     /\ last_submit'.ret = Len(tasks')
                     /\ tasks'[Len(tasks')].state = "queued"
                     /\ \A h \in Handles : tasks'[h] = tasks[h]]_vars
    /\ [](\A h \in Handles : tasks[h].upserts <= 1)
    /\ [](\A h \in Done :
            /\ tasks[h].result = "true" <=> ~tasks[h].raised
            /\ ~tasks[h].raised => tasks[h].upserts = 1)
    /\ [](UpsertCalls(Len(tasks)) <= Len(tasks))
    /\ \A h \in 1..FairTasks : (h \in Handles) ~> (h \in Done)
    /\ []<>(/\ Done = Handles
            /\ (\A h \in Handles : ~tasks[h].raised)
               => UpsertCalls(Len(tasks)) = Len(tasks))

\* C20 witness: every task submitted has ended, one after a failure in its
\* body, the others with one upsert each, and a blank submit made no task.
NoLossNoDuplicationWitness ==
    /\ Len(tasks) >= 2
    /\ Done = Handles
    /\ tasks[1].raised /\ tasks[1].upserts = 0
    /\ \A h \in Handles \ {1} : tasks[h].result = "true" /\ tasks[h].upserts = 1
    /\ last_submit.called /\ last_submit.ret = 0

\* C21: two (timestamp, speaker) pairs get the same id exactly when the
\* speakers are equal and the timestamps have the same whole second; the
\* index never holds two records of one id; an upsert that succeeds leaves
\* the task's record as the one record of its id, whatever was stored
\* under that id before, and leaves the records of the other ids alone.
RecordIdCollision ==
    /\ \A t1, t2 \in 0..IdTicks, s1, s2 \in Speakers :
          VectorId(t1, s1) = VectorId(t2, s2)
          <=> (s1 = s2 /\ t1 \div TicksPerSecond = t2 \div TicksPerSecond)
    /\ [](\A x, y \in store : x.id = y.id => x = y)
    /\ [][\A i \in Handles :
            (tasks[i].pc = "upsert" /\ tasks'[i].state = "done"
             /\ ~tasks'[i].raised)
            => LET r == Record(tasks[i]) IN
               /\ {x \in store' : x.id = r.id} = {r}
               /\ {x \in store' : x.id # r.id} = {x \in store : x.id # r.id}]_vars

\* C21 witness: two tasks of one speaker with different timestamps of the
\* same second have both upserted, and the index holds under their id the
\* record of the one submitted first, whose upsert was applied last.
RecordIdCollisionWitness ==
    \E h, k \in Done :
        /\ h < k
        /\ tasks[h].result = "true" /\ tasks[k].result = "true"
        /\ tasks[h].speaker = tasks[k].speaker
        /\ tasks[h].timestamp # tasks[k].timestamp
        /\ Record(tasks[h]).id = Record(tasks[k]).id
        /\ {x \in store : x.id = Record(tasks[h]).id} = {Record(tasks[h])}

====
